---- MODULE Spec2Model ----
(***************************************************************************)
(* Model of the HD44780-over-PCF8574 LCD driver in Core/Src/LCD_I2C.c.     *)
(* The driver is a set of blocking functions; every function builds 4-byte *)
(* nibble frames and hands them to HAL_I2C_Master_Transmit, or sleeps with *)
(* HAL_Delay.  The model records, per driver call, the sequence of bus     *)
(* transmissions and sleeps the call issues (trace), the status the bus    *)
(* reported for the last transmission, and what the call hands back to its *)
(* caller.  char is the unsigned 8-bit char of the ARM EABI the STM32      *)
(* build uses.                                                             *)
(***************************************************************************)
EXTENDS Integers, Sequences, FiniteSets

VARIABLES phase, op, cmd, row, col, str, i, pc, trace, hal_status, firstFail, ret

vars == <<phase, op, cmd, row, col, str, i, pc, trace, hal_status, firstFail, ret>>

(* ---------------- bounds of the explored inputs ---------------- *)
MaxStrLen == 3
MaxCol == 15
MaxRow == 2

(* ---------------- constants of LCD_I2C.h ---------------- *)
SLAVE_ADDRESS_LCD == 78
LCD_BUFFER_SIZE == 4
UPPER_BITS_MASK == 240
TIMEOUT == 100
EN_BIT_MASK == 12
RS_EN_OFF_MASK == 8
RS_EN_ON_MASK == 13
RS_BIT_MASK == 9
LCD_CURSOR_ROW_FIRST == 128
LCD_CURSOR_ROW_SECOND == 192
LCD_CLEAR_ROW_LENGTH == 16
DELAY_50MS == 40
DELAY_5MS == 5
DELAY_1MS == 1
DELAY_10MS == 10
LCD_INIT_CMD_8BIT == 48
LCD_INIT_CMD_4BIT == 32
LCD_INIT_CMD_FUNCTION_SET == 40
LCD_INIT_CMD_DISPLAY_OFF == 8
LCD_INIT_CMD_CLEAR_DISPLAY == 1
LCD_INIT_CMD_ENTRY_MODE_SET == 6
LCD_INIT_CMD_DISPLAY_ON == 12
LCD_MOVE_RIGHT == 28
LCD_MOVE_LEFT == 24

(* ---------------- C integer operations ---------------- *)
RECURSIVE BitAnd(_, _)
BitAnd(a, b) ==
  IF a = 0 \/ b = 0 THEN 0
  ELSE (a % 2) * (b % 2) + 2 * BitAnd(a \div 2, b \div 2)

RECURSIVE BitOr(_, _)
BitOr(a, b) ==
  IF a = 0 THEN b
  ELSE IF b = 0 THEN a
  ELSE (IF a % 2 = 1 \/ b % 2 = 1 THEN 1 ELSE 0) + 2 * BitOr(a \div 2, b \div 2)

RECURSIVE Pow2(_)
Pow2(n) == IF n = 0 THEN 1 ELSE 2 * Pow2(n - 1)

Shl(a, n) == a * Pow2(n)

\* conversion of an int to the 8-bit unsigned char / uint8_t
ToChar(x) == x % 256

(* ---------------- the bus and timing collaborators ---------------- *)
HAL_StatusTypeDef == {"HAL_OK", "HAL_ERROR", "HAL_BUSY", "HAL_TIMEOUT"}

TxEvent(addr, buf, size, timeout) ==
  [ev |-> "tx", addr |-> addr, buf |-> buf, size |-> size, timeout |-> timeout, ms |-> 0]

SleepEvent(ms) ==
  [ev |-> "sleep", addr |-> 0, buf |-> <<>>, size |-> 0, timeout |-> 0, ms |-> ms]

NumTx(t) == Cardinality({k \in 1..Len(t) : t[k].ev = "tx"})

\* one blocking transmission; the bus reports any status
HAL_I2C_Master_Transmit(addr, buf, size, timeout) ==
  \E st \in HAL_StatusTypeDef :
    /\ trace' = Append(trace, TxEvent(addr, buf, size, timeout))
    /\ hal_status' = st
    /\ firstFail' = IF firstFail = 0 /\ st # "HAL_OK" THEN NumTx(trace) + 1 ELSE firstFail

\* one blocking sleep
HAL_Delay(ms) ==
  /\ trace' = Append(trace, SleepEvent(ms))
  /\ UNCHANGED <<hal_status, firstFail>>

(* ---------------- LCD_SEND_CMD / LCD_SEND_DATA ---------------- *)
\* variant: the low nibble is not shifted into the upper four bits
CmdBuffer_NoShift(c) ==
  LET upper_data == ToChar(BitAnd(c, UPPER_BITS_MASK))
      lower_data == ToChar(BitAnd(c, 15))
  IN  << ToChar(BitOr(upper_data, EN_BIT_MASK)),
         ToChar(BitOr(upper_data, RS_EN_OFF_MASK)),
         ToChar(BitOr(lower_data, EN_BIT_MASK)),
         ToChar(BitOr(lower_data, RS_EN_OFF_MASK)) >>

CmdBuffer(c) ==
  LET upper_data == ToChar(BitAnd(c, UPPER_BITS_MASK))
      lower_data == ToChar(BitAnd(Shl(c, LCD_BUFFER_SIZE), UPPER_BITS_MASK))
  IN  << ToChar(BitOr(upper_data, EN_BIT_MASK)),
         ToChar(BitOr(upper_data, RS_EN_OFF_MASK)),
         ToChar(BitOr(lower_data, EN_BIT_MASK)),
         ToChar(BitOr(lower_data, RS_EN_OFF_MASK)) >>

DataBuffer(d) ==
  LET upper_data == ToChar(BitAnd(d, UPPER_BITS_MASK))
      lower_data == ToChar(BitAnd(Shl(d, LCD_BUFFER_SIZE), UPPER_BITS_MASK))
  IN  << ToChar(BitOr(upper_data, RS_EN_ON_MASK)),
         ToChar(BitOr(upper_data, RS_BIT_MASK)),
         ToChar(BitOr(lower_data, RS_EN_ON_MASK)),
         ToChar(BitOr(lower_data, RS_BIT_MASK)) >>

\* the body of LCD_SEND_CMD(c): the status of the transmission is dropped
LCD_SEND_CMD(c) ==
  HAL_I2C_Master_Transmit(SLAVE_ADDRESS_LCD, CmdBuffer(c), LCD_BUFFER_SIZE, TIMEOUT)

\* the body of LCD_SEND_DATA(d): the status of the transmission is dropped
LCD_SEND_DATA(d) ==
  HAL_I2C_Master_Transmit(SLAVE_ADDRESS_LCD, DataBuffer(d), LCD_BUFFER_SIZE, TIMEOUT)

(* ---------------- inputs of the caller ---------------- *)
Bytes == 0..255
RowValues == (-1)..MaxRow
ColValues == (0..MaxCol) \cup {64, 127, 128, 200, 255, 256, 300}
Alphabet == {32, 65, 66, 200}

RECURSIVE SeqsUpTo(_, _)
SeqsUpTo(S, n) ==
  IF n = 0 THEN {<<>>}
  ELSE LET shorter == SeqsUpTo(S, n - 1)
       IN  shorter \cup {Append(s, x) : s \in shorter, x \in S}

\* memory a char* may point to: non-null characters, the terminator, and
\* possibly bytes behind the terminator
Strings == {s \o <<0>> \o t : s \in SeqsUpTo(Alphabet, MaxStrLen), t \in {<<>>, <<66>>}}

(* ---------------- the state ---------------- *)
Init ==
  /\ phase = "idle"
  /\ op = "none"
  /\ cmd = 0
  /\ row = 0
  /\ col = 0
  /\ str = <<0>>
  /\ i = 0
  /\ pc = 1
  /\ trace = <<>>
  /\ hal_status = "none"
  /\ firstFail = 0
  /\ ret = "none"

\* the caller enters a driver function
Enter(f) ==
  /\ phase = "idle"
  /\ phase' = "running"
  /\ op' = f
  /\ pc' = 1
  /\ i' = 0
  /\ trace' = <<>>
  /\ hal_status' = "none"
  /\ firstFail' = 0
  /\ ret' = "none"

\* a void function returns to its caller
ReturnVoid ==
  /\ phase' = "returned"
  /\ ret' = "void"

Running(f) == phase = "running" /\ op = f

(* ---------------- calls of the primitives ---------------- *)
Call_LCD_SEND_CMD ==
  \E b \in Bytes :
    /\ Enter("LCD_SEND_CMD")
    /\ cmd' = b
    /\ UNCHANGED <<row, col, str>>

Do_LCD_SEND_CMD ==
  /\ Running("LCD_SEND_CMD")
  /\ LCD_SEND_CMD(cmd)
  /\ ReturnVoid
  /\ UNCHANGED <<op, cmd, row, col, str, i, pc>>

Call_LCD_SEND_DATA ==
  \E b \in Bytes :
    /\ Enter("LCD_SEND_DATA")
    /\ cmd' = b
    /\ UNCHANGED <<row, col, str>>

Do_LCD_SEND_DATA ==
  /\ Running("LCD_SEND_DATA")
  /\ LCD_SEND_DATA(cmd)
  /\ ReturnVoid
  /\ UNCHANGED <<op, cmd, row, col, str, i, pc>>

(* ---------------- LCD_CLEAR ---------------- *)
Call_LCD_CLEAR ==
  /\ Enter("LCD_CLEAR")
  /\ UNCHANGED <<cmd, row, col, str>>

\* LCD_SEND_CMD(LCD_CURSOR_ROW_FIRST); then the loop starts with i = 0
LCD_CLEAR_Home ==
  /\ Running("LCD_CLEAR")
  /\ pc = 1
  /\ LCD_SEND_CMD(LCD_CURSOR_ROW_FIRST)
  /\ i' = 0
  /\ pc' = 2
  /\ UNCHANGED <<phase, op, cmd, row, col, str, ret>>

\* variant: the loop test is i <= LCD_CLEAR_ROW_LENGTH
ClearMore_OffByOne(j) == j <= LCD_CLEAR_ROW_LENGTH

\* the loop test i < LCD_CLEAR_ROW_LENGTH
ClearMore(j) == j < LCD_CLEAR_ROW_LENGTH

\* one round of for (char i = 0; i < LCD_CLEAR_ROW_LENGTH; i++) LCD_SEND_DATA(' ')
LCD_CLEAR_Loop ==
  /\ Running("LCD_CLEAR")
  /\ pc = 2
  /\ ClearMore(i)
  /\ LCD_SEND_DATA(32)
  /\ i' = ToChar(i + 1)
  /\ UNCHANGED <<phase, op, cmd, row, col, str, pc, ret>>

LCD_CLEAR_Exit ==
  /\ Running("LCD_CLEAR")
  /\ pc = 2
  /\ ~ClearMore(i)
  /\ ReturnVoid
  /\ UNCHANGED <<op, cmd, row, col, str, i, pc, trace, hal_status, firstFail>>

(* ---------------- LCD_SET_CURSOR ---------------- *)
\* variant: the two row bases are exchanged
CursorCol_RowsSwapped(r, c) ==
  CASE r = 0 -> BitOr(c, LCD_CURSOR_ROW_SECOND)
    [] r = 1 -> BitOr(c, LCD_CURSOR_ROW_FIRST)
    [] OTHER -> c

\* the switch on row: the value of col after it
CursorCol(r, c) ==
  CASE r = 0 -> BitOr(c, LCD_CURSOR_ROW_FIRST)
    [] r = 1 -> BitOr(c, LCD_CURSOR_ROW_SECOND)
    [] OTHER -> c

Call_LCD_SET_CURSOR ==
  \E r \in RowValues, c \in ColValues :
    /\ Enter("LCD_SET_CURSOR")
    /\ row' = r
    /\ col' = c
    /\ UNCHANGED <<cmd, str>>

\* row and col hold the arguments of the call; the function ORs the row base
\* into its own copy of col and converts that int to the char parameter of
\* LCD_SEND_CMD
Do_LCD_SET_CURSOR ==
  /\ Running("LCD_SET_CURSOR")
  /\ LCD_SEND_CMD(ToChar(CursorCol(row, col)))
  /\ ReturnVoid
  /\ UNCHANGED <<op, cmd, row, col, str, i, pc>>

(* ---------------- LCD_INIT ---------------- *)
Delay(ms) == [k |-> "delay", v |-> ms]
Cmd(c) == [k |-> "cmd", v |-> c]

\* variant: the 4-bit command and the function set are exchanged
LCD_INIT_Code_Reordered ==
  << Delay(DELAY_50MS),
     Cmd(LCD_INIT_CMD_8BIT),
     Delay(DELAY_5MS),
     Cmd(LCD_INIT_CMD_8BIT),
     Delay(DELAY_1MS),
     Cmd(LCD_INIT_CMD_8BIT),
     Delay(DELAY_10MS),
     Cmd(LCD_INIT_CMD_FUNCTION_SET),
     Delay(DELAY_10MS),
     Cmd(LCD_INIT_CMD_4BIT),
     Delay(DELAY_1MS),
     Cmd(LCD_INIT_CMD_DISPLAY_OFF),
     Delay(DELAY_1MS),
     Cmd(LCD_INIT_CMD_CLEAR_DISPLAY),
     Delay(DELAY_1MS),
     Delay(DELAY_1MS),
     Cmd(LCD_INIT_CMD_ENTRY_MODE_SET),
     Delay(DELAY_1MS),
     Cmd(LCD_INIT_CMD_DISPLAY_ON) >>

\* variant: a single 1 ms wait after the clear-display command
LCD_INIT_Code_OneClearWait ==
  << Delay(DELAY_50MS),
     Cmd(LCD_INIT_CMD_8BIT),
     Delay(DELAY_5MS),
     Cmd(LCD_INIT_CMD_8BIT),
     Delay(DELAY_1MS),
     Cmd(LCD_INIT_CMD_8BIT),
     Delay(DELAY_10MS),
     Cmd(LCD_INIT_CMD_4BIT),
     Delay(DELAY_10MS),
     Cmd(LCD_INIT_CMD_FUNCTION_SET),
     Delay(DELAY_1MS),
     Cmd(LCD_INIT_CMD_DISPLAY_OFF),
     Delay(DELAY_1MS),
     Cmd(LCD_INIT_CMD_CLEAR_DISPLAY),
     Delay(DELAY_1MS),
     Cmd(LCD_INIT_CMD_ENTRY_MODE_SET),
     Delay(DELAY_1MS),
     Cmd(LCD_INIT_CMD_DISPLAY_ON) >>

\* the statements of LCD_INIT, in program order
LCD_INIT_Code ==
  << Delay(DELAY_50MS),
     Cmd(LCD_INIT_CMD_8BIT),
     Delay(DELAY_5MS),
     Cmd(LCD_INIT_CMD_8BIT),
     Delay(DELAY_1MS),
     Cmd(LCD_INIT_CMD_8BIT),
     Delay(DELAY_10MS),
     Cmd(LCD_INIT_CMD_4BIT),
     Delay(DELAY_10MS),
     Cmd(LCD_INIT_CMD_FUNCTION_SET),
     Delay(DELAY_1MS),
     Cmd(LCD_INIT_CMD_DISPLAY_OFF),
     Delay(DELAY_1MS),
     Cmd(LCD_INIT_CMD_CLEAR_DISPLAY),
     Delay(DELAY_1MS),
     Delay(DELAY_1MS),
     Cmd(LCD_INIT_CMD_ENTRY_MODE_SET),
     Delay(DELAY_1MS),
     Cmd(LCD_INIT_CMD_DISPLAY_ON) >>

Call_LCD_INIT ==
  /\ Enter("LCD_INIT")
  /\ UNCHANGED <<cmd, row, col, str>>

\* variant: LCD_INIT gives up after a transmission the bus did not accept
InitNext_AbortOnFailure(p, st) == IF st = "HAL_OK" THEN p + 1 ELSE 20

\* where LCD_INIT goes after the statement at pc, given the status the bus
\* reported for it: to the next statement, whatever the status
InitNext(p, st) == p + 1

\* one HAL_Delay statement of LCD_INIT
LCD_INIT_Delay ==
  /\ Running("LCD_INIT")
  /\ pc <= Len(LCD_INIT_Code)
  /\ LCD_INIT_Code[pc].k = "delay"
  /\ HAL_Delay(LCD_INIT_Code[pc].v)
  /\ pc' = pc + 1
  /\ UNCHANGED <<phase, op, cmd, row, col, str, i, ret>>

\* one LCD_SEND_CMD statement of LCD_INIT
LCD_INIT_Cmd ==
  /\ Running("LCD_INIT")
  /\ pc <= Len(LCD_INIT_Code)
  /\ LCD_INIT_Code[pc].k = "cmd"
  /\ LCD_SEND_CMD(LCD_INIT_Code[pc].v)
  /\ pc' = InitNext(pc, hal_status')
  /\ UNCHANGED <<phase, op, cmd, row, col, str, i, ret>>

LCD_INIT_Exit ==
  /\ Running("LCD_INIT")
  /\ pc > Len(LCD_INIT_Code)
  /\ ReturnVoid
  /\ UNCHANGED <<op, cmd, row, col, str, i, pc, trace, hal_status, firstFail>>

(* ---------------- LCD_SEND_STRING ---------------- *)
Call_LCD_SEND_STRING ==
  \E s \in Strings :
    /\ Enter("LCD_SEND_STRING")
    /\ str' = s
    /\ UNCHANGED <<cmd, row, col>>

\* variant: a do-while that sends the character before testing it
StringMore_SendsTerminator(s, p) == p = 1 \/ s[p - 1] # 0

\* the test of while (*str), str pointing at str[pc]
StringMore(s, p) == s[p] # 0

\* LCD_SEND_DATA(*str++)
LCD_SEND_STRING_Loop ==
  /\ Running("LCD_SEND_STRING")
  /\ StringMore(str, pc)
  /\ LCD_SEND_DATA(str[pc])
  /\ pc' = pc + 1
  /\ UNCHANGED <<phase, op, cmd, row, col, str, i, ret>>

LCD_SEND_STRING_Exit ==
  /\ Running("LCD_SEND_STRING")
  /\ ~StringMore(str, pc)
  /\ ReturnVoid
  /\ UNCHANGED <<op, cmd, row, col, str, i, pc, trace, hal_status, firstFail>>

(* ---------------- LCD_SCROLL_LEFT / LCD_SCROLL_RIGHT ---------------- *)
Call_LCD_SCROLL_LEFT ==
  /\ Enter("LCD_SCROLL_LEFT")
  /\ UNCHANGED <<cmd, row, col, str>>

\* variant: scroll_left sends the shift-right command
ScrollLeftCmd_Right == LCD_MOVE_RIGHT

ScrollLeftCmd == LCD_MOVE_LEFT

Do_LCD_SCROLL_LEFT ==
  /\ Running("LCD_SCROLL_LEFT")
  /\ LCD_SEND_CMD(ScrollLeftCmd)
  /\ ReturnVoid
  /\ UNCHANGED <<op, cmd, row, col, str, i, pc>>

Call_LCD_SCROLL_RIGHT ==
  /\ Enter("LCD_SCROLL_RIGHT")
  /\ UNCHANGED <<cmd, row, col, str>>

ScrollRightCmd == LCD_MOVE_RIGHT

Do_LCD_SCROLL_RIGHT ==
  /\ Running("LCD_SCROLL_RIGHT")
  /\ LCD_SEND_CMD(ScrollRightCmd)
  /\ ReturnVoid
  /\ UNCHANGED <<op, cmd, row, col, str, i, pc>>

(* ---------------- the caller goes on after a return ---------------- *)
Resume ==
  /\ phase = "returned"
  /\ phase' = "idle"
  /\ op' = "none"
  /\ cmd' = 0
  /\ row' = 0
  /\ col' = 0
  /\ str' = <<0>>
  /\ i' = 0
  /\ pc' = 1
  /\ trace' = <<>>
  /\ hal_status' = "none"
  /\ firstFail' = 0
  /\ ret' = "none"

Next ==
  \/ Call_LCD_SEND_CMD
  \/ Do_LCD_SEND_CMD
  \/ Call_LCD_SEND_DATA
  \/ Do_LCD_SEND_DATA
  \/ Call_LCD_CLEAR
  \/ LCD_CLEAR_Home
  \/ LCD_CLEAR_Loop
  \/ LCD_CLEAR_Exit
  \/ Call_LCD_SET_CURSOR
  \/ Do_LCD_SET_CURSOR
  \/ Call_LCD_INIT
  \/ LCD_INIT_Delay
  \/ LCD_INIT_Cmd
  \/ LCD_INIT_Exit
  \/ Call_LCD_SEND_STRING
  \/ LCD_SEND_STRING_Loop
  \/ LCD_SEND_STRING_Exit
  \/ Call_LCD_SCROLL_LEFT
  \/ Do_LCD_SCROLL_LEFT
  \/ Call_LCD_SCROLL_RIGHT
  \/ Do_LCD_SCROLL_RIGHT
  \/ Resume

Spec == Init /\ [][Next]_vars

(***************************************************************************)
(* Properties.  The expected frames are written arithmetically, from the   *)
(* two nibbles of the byte, independently of the C expressions above.      *)
(***************************************************************************)
Returned(f) == phase = "returned" /\ op = f

\* the frame of value v with control nibbles H (enable high) and L (enable low)
Frame(v, H, L) ==
  << ((v \div 16) % 16) * 16 + H, ((v \div 16) % 16) * 16 + L,
     (v % 16) * 16 + H, (v % 16) * 16 + L >>

IsTxOf(e, buf) ==
  /\ e.ev = "tx"
  /\ e.addr = 78
  /\ e.size = 4
  /\ Len(e.buf) = 4
  /\ e.buf = buf

IsCmdFrame(buf) ==
  Len(buf) = 4 /\ buf[1] % 16 = 12 /\ buf[2] % 16 = 8 /\ buf[3] % 16 = 12 /\ buf[4] % 16 = 8

IsDataFrame(buf) ==
  Len(buf) = 4 /\ buf[1] % 16 = 13 /\ buf[2] % 16 = 9 /\ buf[3] % 16 = 13 /\ buf[4] % 16 = 9

\* the byte a frame carries: high nibble of slot 1, high nibble of slot 3
Decode(buf) == (buf[1] \div 16) * 16 + (buf[3] \div 16)

IsTx(e) == e.ev = "tx"

TxSeq == SelectSeq(trace, IsTx)

\* position in trace of the k-th transmission
TxPos(k) ==
  CHOOSE p \in 1..Len(trace) :
    /\ trace[p].ev = "tx"
    /\ Cardinality({q \in 1..p : trace[q].ev = "tx"}) = k

\* durations of the sleeps issued after the k-th transmission and before the
\* next transmission (or the end of the trace)
SleepsAfter(k) ==
  LET from == TxPos(k) + 1
      to == IF k < NumTx(trace) THEN TxPos(k + 1) - 1 ELSE Len(trace)
  IN  [j \in 1..(to - from + 1) |-> trace[from + j - 1].ms]

IsPrefix(s, t) == Len(s) <= Len(t) /\ s = SubSeq(t, 1, Len(s))

\* number of characters of the string before its terminator
StrLen(s) == (CHOOSE p \in 1..Len(s) : s[p] = 0 /\ \A q \in 1..(p - 1) : s[q] # 0) - 1

(* C1: send_command(b) and send_data(b) each issue exactly one transmission, *)
(* whatever status the bus reports, to address 0x4E with the 4-byte buffer   *)
(* [(b & 0xF0)|H, (b & 0xF0)|L, ((b<<4) & 0xF0)|H, ((b<<4) & 0xF0)|L], with  *)
(* (H, L) = (0x0C, 0x08) for a command and (0x0D, 0x09) for data.            *)
C1_OneFramePerByte ==
  /\ Returned("LCD_SEND_CMD") =>
       Len(trace) = 1 /\ IsTxOf(trace[1], Frame(cmd, 12, 8))
  /\ Returned("LCD_SEND_DATA") =>
       Len(trace) = 1 /\ IsTxOf(trace[1], Frame(cmd, 13, 9))
  /\ (phase = "running" /\ op \in {"LCD_SEND_CMD", "LCD_SEND_DATA"}) => trace = <<>>

C1_Witness ==
  /\ Returned("LCD_SEND_DATA")
  /\ cmd = 165
  /\ hal_status = "HAL_ERROR"
  /\ Len(trace) = 1
  /\ trace[1].buf = <<173, 169, 93, 89>>

(* C2: init() emits exactly nine command transmissions and no data         *)
(* transmission, in the order 0x30 0x30 0x30 0x20 0x28 0x08 0x01 0x06 0x0C, *)
(* with a wait of strictly positive duration between every two consecutive *)
(* commands.                                                               *)
C2_InitCommands == <<48, 48, 48, 32, 40, 8, 1, 6, 12>>

C2_InitOrder ==
  op = "LCD_INIT" =>
    /\ \A k \in 1..Len(TxSeq) : IsCmdFrame(TxSeq[k].buf) /\ TxSeq[k].addr = 78
    /\ IsPrefix([k \in 1..Len(TxSeq) |-> Decode(TxSeq[k].buf)], C2_InitCommands)
    /\ phase = "returned" => Len(TxSeq) = 9
    /\ \A a, b \in 1..Len(trace) :
         (a < b /\ trace[a].ev = "tx" /\ trace[b].ev = "tx") =>
           \E m \in (a + 1)..(b - 1) : trace[m].ev = "sleep" /\ trace[m].ms > 0

C2_Witness ==
  /\ Returned("LCD_INIT")
  /\ NumTx(trace) = 9
  /\ Decode(TxSeq[9].buf) = 12
  /\ Decode(TxSeq[4].buf) = 32

(* C3: if the bus reports failure on a transmission, the operation that    *)
(* issued it reports failure to its caller and does not retry it.          *)
C3_ExpectedNumTx ==
  CASE op = "LCD_INIT" -> 9
    [] op = "LCD_CLEAR" -> 17
    [] op = "LCD_SEND_STRING" -> StrLen(str)
    [] OTHER -> 1

C3_FailureReported ==
  (phase = "returned" /\ firstFail > 0) =>
    /\ ret = "failure"
    /\ NumTx(trace) = C3_ExpectedNumTx

(* C4: the first action of init() is a sleep of 50 time units, and no      *)
(* transmission precedes it.                                               *)
C4_InitFirstWait50 ==
  (op = "LCD_INIT" /\ Len(trace) >= 1) =>
    trace[1].ev = "sleep" /\ trace[1].ms = 50

(* C5: in init() the total wait after each command and before the next is  *)
(* 5, 1, 10, 10, 1, 1, 2 (as two 1-unit sleeps), 1, and no wait follows    *)
(* the final command 0x0C.                                                 *)
C5_InitWaits == << <<5>>, <<1>>, <<10>>, <<10>>, <<1>>, <<1>>, <<1, 1>>, <<1>>, <<>> >>

C5_InitDelays ==
  /\ Returned("LCD_INIT") =>
       /\ NumTx(trace) = 9
       /\ \A k \in 1..9 : SleepsAfter(k) = C5_InitWaits[k]
  /\ (op = "LCD_INIT" /\ phase = "running") =>
       \A k \in 1..NumTx(trace) : IsPrefix(SleepsAfter(k), C5_InitWaits[k])

C5_Witness ==
  /\ Returned("LCD_INIT")
  /\ Len(trace) = 19
  /\ SleepsAfter(7) = <<1, 1>>
  /\ trace[19].ev = "tx"

(* C6: clear() produces exactly 17 transmissions: one command transmission *)
(* for 0x80, then sixteen data transmissions of the space 0x20; the        *)
(* clear-display command 0x01 is never sent.                               *)
C6_ClearFrames ==
  op = "LCD_CLEAR" =>
    /\ Len(trace) <= 17
    /\ \A k \in 1..Len(trace) :
         /\ IsTxOf(trace[k], IF k = 1 THEN Frame(128, 12, 8) ELSE Frame(32, 13, 9))
         /\ trace[k].buf # Frame(1, 12, 8)
    /\ phase = "returned" => Len(trace) = 17

C6_Witness ==
  /\ Returned("LCD_CLEAR")
  /\ Len(trace) = 17
  /\ trace[1].buf = <<140, 136, 12, 8>>
  /\ trace[17].buf = <<45, 41, 13, 9>>

(* C7: set_cursor(row, c) issues exactly one command transmission, for the *)
(* byte (c | 0x80) when row = 0, (c | 0xC0) when row = 1, and c unmodified *)
(* for any other row; no input is rejected.                                *)
C7_WithBit(c, b) == IF (c \div b) % 2 = 1 THEN c ELSE c + b

C7_Expected(r, c) ==
  IF r = 0 THEN C7_WithBit(c, 128)
  ELSE IF r = 1 THEN C7_WithBit(C7_WithBit(c, 128), 64)
  ELSE c

C7_CursorCommand ==
  /\ Returned("LCD_SET_CURSOR") =>
       Len(trace) = 1 /\ IsTxOf(trace[1], Frame(C7_Expected(row, col), 12, 8))
  /\ (phase = "running" /\ op = "LCD_SET_CURSOR") => trace = <<>>

C7_Witness ==
  /\ Returned("LCD_SET_CURSOR")
  /\ row = 1
  /\ col = 5
  /\ Len(trace) = 1
  /\ trace[1].buf = <<204, 200, 92, 88>>

(* C8: for a string of n non-null characters followed by a terminator,     *)
(* send_string produces exactly n data transmissions and no command        *)
(* transmission, the k-th encoding the k-th character; the terminator is   *)
(* never transmitted.                                                      *)
C8_StringFrames ==
  op = "LCD_SEND_STRING" =>
    /\ Len(trace) <= StrLen(str)
    /\ \A k \in 1..Len(trace) : IsTxOf(trace[k], Frame(str[k], 13, 9))
    /\ phase = "returned" => Len(trace) = StrLen(str)

C8_Witness ==
  /\ Returned("LCD_SEND_STRING")
  /\ str = <<65, 66, 0, 66>>
  /\ Len(trace) = 2
  /\ trace[1].buf = <<77, 73, 29, 25>>
  /\ trace[2].buf = <<77, 73, 45, 41>>

(* C9: scroll_left() produces exactly one transmission, the command frame  *)
(* of 0x18, and scroll_right() exactly one, the command frame of 0x1C;     *)
(* neither sends data.                                                     *)
C9_ScrollFrames ==
  /\ Returned("LCD_SCROLL_LEFT") =>
       Len(trace) = 1 /\ IsTxOf(trace[1], <<28, 24, 140, 136>>)
  /\ Returned("LCD_SCROLL_RIGHT") =>
       Len(trace) = 1 /\ IsTxOf(trace[1], <<28, 24, 204, 200>>)
  /\ (phase = "running" /\ op \in {"LCD_SCROLL_LEFT", "LCD_SCROLL_RIGHT"}) => trace = <<>>

C9_Witness ==
  /\ Returned("LCD_SCROLL_LEFT")
  /\ Len(trace) = 1
  /\ Decode(trace[1].buf) = 24
  /\ IsCmdFrame(trace[1].buf)

(* C10: the transmissions and sleeps that init(), clear() and send_string() *)
(* issue do not depend on the statuses the bus reports: whatever the bus    *)
(* answers, the operation issues one fixed sequence, determined by the      *)
(* operation and its argument alone, and a failure never shortens it.       *)
C10_Abstract(e) ==
  IF e.ev = "sleep" THEN <<"sleep", e.ms>>
  ELSE IF IsCmdFrame(e.buf) THEN <<"cmd", Decode(e.buf)>>
  ELSE IF IsDataFrame(e.buf) THEN <<"data", Decode(e.buf)>>
  ELSE <<"other", 0>>

C10_Fixed ==
  CASE op = "LCD_INIT" ->
         << <<"sleep", DELAY_50MS>>, <<"cmd", 48>>, <<"sleep", 5>>, <<"cmd", 48>>,
            <<"sleep", 1>>, <<"cmd", 48>>, <<"sleep", 10>>, <<"cmd", 32>>,
            <<"sleep", 10>>, <<"cmd", 40>>, <<"sleep", 1>>, <<"cmd", 8>>,
            <<"sleep", 1>>, <<"cmd", 1>>, <<"sleep", 1>>, <<"sleep", 1>>,
            <<"cmd", 6>>, <<"sleep", 1>>, <<"cmd", 12>> >>
    [] op = "LCD_CLEAR" ->
         [k \in 1..17 |-> IF k = 1 THEN <<"cmd", 128>> ELSE <<"data", 32>>]
    [] op = "LCD_SEND_STRING" ->
         [k \in 1..StrLen(str) |-> <<"data", str[k]>>]
    [] OTHER -> <<>>

C10_OutcomeIndependent ==
  op \in {"LCD_INIT", "LCD_CLEAR", "LCD_SEND_STRING"} =>
    /\ IsPrefix([k \in 1..Len(trace) |-> C10_Abstract(trace[k])], C10_Fixed)
    /\ phase = "returned" => Len(trace) = Len(C10_Fixed)

C10_Witness ==
  /\ Returned("LCD_INIT")
  /\ firstFail = 1
  /\ hal_status = "HAL_OK"
  /\ NumTx(trace) = 9
  /\ Len(trace) = 19

====
